---- MODULE Spec2Model ----
(***************************************************************************)
(* gitlab-downloader (src/cli.js, cache version, lines 1-195): main and    *)
(* the parallel downloadFolder recursion, the include filter and the       *)
(* last_commit.json run-skip cache, as a state machine over successive     *)
(* invocations of the CLI against one remote repository.                   *)
(*                                                                         *)
(* Strings whose characters matter (paths, include terms) are sequences of *)
(* one-character strings, so that String.prototype.includes and split are  *)
(* computed, not assumed.                                                  *)
(*                                                                         *)
(* Environment: a tree request that succeeds answers with an array of      *)
(* {name, type} entries with unique names; every request and every file    *)
(* write may fail; fs.mkdirp(CACHE_DIR) succeeds, at a time of its own.    *)
(***************************************************************************)
EXTENDS Integers, Sequences, FiniteSets, TLC

VARIABLES
  run,              \* number of invocations of the CLI started so far
  pc,               \* position of main: "idle", "fetchCommit", "pass", "exited"
  outcome,          \* how main ended: "none", "fatal", "skipped", "crashed", "complete"
  exitCode,         \* process exit status once main has ended (-1 while running)
  config,           \* the process-wide constants of this invocation (cli.js 55-61)
  latestCommitHash, \* main's local (165); "" until resolved
  currentArgsHash,  \* main's local (180)
  rootIdx,          \* index in FOLDERS_TO_DOWNLOAD of the downloadFolder being awaited
  listing,          \* folder paths whose fetchTree request is in flight
  fetching,         \* file paths whose axios.get in downloadFile is in flight
  writing,          \* file paths whose fs.outputFile is in flight
  mkdirPending,     \* fs.mkdirp(CACHE_DIR) started and not yet completed
  cacheDir,         \* CACHE_DIR exists on disk
  cacheFile,        \* content of COMMIT_FILE on disk
  localFiles,       \* the downloaded files on disk: local path and content
  remoteTree,       \* the repository tree served by the remote
  remoteCommit,     \* id of the latest commit of the branch on the remote
  priorFile,        \* content of COMMIT_FILE when this invocation started
  skipChecked,      \* this invocation evaluated the comparison of line 182
  treeCalls,        \* folder paths this invocation requested a tree listing for
  fileCalls,        \* file paths this invocation requested the raw content of
  written,          \* file paths this invocation wrote locally
  ignored,          \* folder paths this invocation logged as "Ignoring folder"
  warned,           \* paths whose listing, fetch or write failed in this invocation
  saves,            \* number of successful writes of COMMIT_FILE in this invocation
  cwd,              \* process.cwd() of this invocation
  opCount,          \* how many times this invocation requested each listing and
                    \* each file and started each local write
  prev              \* what the previous invocation was given and how it ended

vars == <<run, pc, outcome, exitCode, config, latestCommitHash, currentArgsHash,
          rootIdx, listing, fetching, writing, mkdirPending, cacheDir, cacheFile,
          localFiles, remoteTree, remoteCommit, priorFile, skipChecked, treeCalls,
          fileCalls, written, ignored, warned, saves, cwd, opCount, prev>>

----------------------------------------------------------------------------
(* Bounds *)

MaxRuns == 2

----------------------------------------------------------------------------
(* Names used in the repository trees and the include lists *)

proto == <<"p","r","o","t","o">>
build == <<"b","u","i","l","d">>
docs == <<"d","o","c","s">>
other == <<"o","t","h","e","r">>
dirA == <<"a">>
dirB == <<"b">>
xTxt == <<"x",".","t","x","t">>
yTxt == <<"y",".","t","x","t">>
aProto == <<"a",".","p","r","o","t","o">>
outBin == <<"o","u","t",".","b","i","n">>

\* a variant that names one root folder twice
FoldersProtoTwice == <<proto, proto>>

FOLDERS_TO_DOWNLOAD == <<proto, build>>

----------------------------------------------------------------------------
(* The remote repository: a tree is a set of entries, each the child       *)
(* `name` of type "blob" or "tree" of the folder `path` (cli.js 98-110:    *)
(* the items of response.data).                                            *)

Entry(path, name, type) == [path |-> path, name |-> name, type |-> type]

\* `${folderPath}/${item.name}` or item.name at the repository root (136)
FullPath(folderPath, name) ==
  IF folderPath # <<>> THEN folderPath \o <<"/">> \o name ELSE name

\* proto/a.proto, build/out.bin
TreeRoots ==
  { Entry(<<>>, proto, "tree"), Entry(proto, aProto, "blob"),
    Entry(<<>>, build, "tree"), Entry(build, outBin, "blob") }

\* a/docs/x.txt, a/other/docs/y.txt, b/y.txt at the repository root
TreeAtRoot ==
  { Entry(<<>>, dirA, "tree"),
    Entry(dirA, docs, "tree"),
    Entry(FullPath(dirA, docs), xTxt, "blob"),
    Entry(dirA, other, "tree"),
    Entry(FullPath(dirA, other), docs, "tree"),
    Entry(FullPath(FullPath(dirA, other), docs), yTxt, "blob"),
    Entry(<<>>, dirB, "tree"),
    Entry(dirB, yTxt, "blob") }

\* the same three files below the root folder proto
TreeUnderProto ==
  { Entry(<<>>, proto, "tree") } \cup
  { Entry(IF e.path = <<>> THEN proto ELSE FullPath(proto, e.path), e.name, e.type) :
      e \in TreeAtRoot }

\* proto/a.proto, proto/docs/x.txt, proto/docs/y.txt
TreeSiblings ==
  { Entry(<<>>, proto, "tree"),
    Entry(proto, aProto, "blob"),
    Entry(proto, docs, "tree"),
    Entry(FullPath(proto, docs), xTxt, "blob"),
    Entry(FullPath(proto, docs), yTxt, "blob") }

\* proto/a.proto
TreeProto == { Entry(<<>>, proto, "tree"), Entry(proto, aProto, "blob") }

\* a repository with neither proto nor build
TreeEmpty == {}

RemoteTrees == { TreeRoots, TreeAtRoot, TreeUnderProto, TreeSiblings }

\* response.data of the tree request for folderPath (105)
Items(tree, folderPath) == { e \in tree : e.path = folderPath }

\* the repository paths of the files of a tree
FilesOf(tree) == { FullPath(e.path, e.name) : e \in { x \in tree : x.type = "blob" } }

Commits == { "abc", "def" }

----------------------------------------------------------------------------
(* String primitives of the JavaScript runtime used by cli.js *)

\* s.startsWith(t, k - 1): t occurs in s at position k (1-based)
MatchAt(s, t, k) ==
  /\ k + Len(t) - 1 <= Len(s)
  /\ \A i \in 1..Len(t) : s[k + i - 1] = t[i]

RECURSIVE IndexOfFrom(_, _, _)
\* s.indexOf(t, k - 1) + 1: the first position >= k where t occurs in s, or 0
IndexOfFrom(s, t, k) ==
  IF k + Len(t) - 1 > Len(s) THEN 0
  ELSE IF MatchAt(s, t, k) THEN k
  ELSE IndexOfFrom(s, t, k + 1)

\* a plausible slip: the term has to be a prefix of the path
IncludesPrefixOnly(s, t) == MatchAt(s, t, 1)

\* s.includes(t) (139)
Includes(s, t) == IndexOfFrom(s, t, 1) > 0

RECURSIVE Split(_)
\* str.split(',') (61)
Split(str) ==
  LET k == IndexOfFrom(str, <<",">>, 1)
  IN IF k = 0 THEN <<str>>
     ELSE <<SubSeq(str, 1, k - 1)>> \o Split(SubSeq(str, k + 1, Len(str)))

\* argv.includeOnly ? argv.includeOnly.split(',') : [] (61); an absent option
\* and the empty string are both falsy
ParseIncludeOnly(arg) == IF arg # <<>> THEN Split(arg) ELSE <<>>

RECURSIVE Normalize(_)
\* path.normalize on a path without . and .. segments: runs of "/" collapse
Normalize(path) ==
  IF Len(path) < 2 THEN path
  ELSE IF path[1] = "/" /\ path[2] = "/" THEN Normalize(Tail(path))
  ELSE <<path[1]>> \o Normalize(Tail(path))

\* path.join(process.cwd(), DOWNLOAD_DIR, filePath) (122): the non-empty
\* segments are joined with "/" and the result is normalized, so a DOWNLOAD_DIR
\* that starts with "/" is still placed below the first segment
PathJoin(dir0, dir, filePath) ==
  IF dir # <<>> THEN Normalize(dir0 \o <<"/">> \o dir \o <<"/">> \o filePath)
  ELSE Normalize(dir0 \o <<"/">> \o filePath)

----------------------------------------------------------------------------
(* Command line and process-wide constants (cli.js 13-63) *)

\* --projectId 42, and the default of --branch
id42 == <<"4", "2">>
master == <<"m", "a", "s", "t", "e", "r">>

\* the values of --includeOnly tried: absent, "docs" and "docs,b"
IncludeOnlyArgs == { <<>>, docs, docs \o <<",">> \o dirB }

\* argv of one invocation
Argvs ==
  { [hostUrl |-> "https://gitlab.example", token |-> "pat", projectId |-> id42,
     branch |-> master, includeOnly |-> i, dir |-> <<>>] : i \in IncludeOnlyArgs }

\* other values of --projectId, --branch and --dir
id4 == <<"4">>
dev == <<"d", "e", "v">>
out == <<"o", "u", "t">>
outQuote == <<"o", "\"">>

\* one invocation, and those that differ from it in one of the four hashed
\* options, or in two of them
HashArgvs ==
  LET argv == CHOOSE a \in Argvs : a.includeOnly = docs
  IN { argv,
       [argv EXCEPT !.projectId = id4],
       [argv EXCEPT !.branch = dev],
       [argv EXCEPT !.includeOnly = docs \o <<",">> \o dirB],
       [argv EXCEPT !.includeOnly = <<>>],
       [argv EXCEPT !.includeOnly = <<",">>],
       [argv EXCEPT !.dir = out],
       [argv EXCEPT !.dir = outQuote],
       [argv EXCEPT !.projectId = id4, !.dir = out] }

\* --dir /out
absOut == <<"/">> \o out

\* invocations with no, a relative and an absolute download directory, and
\* with --includeOnly absent, "docs" and ","
DirArgvs ==
  { [a EXCEPT !.includeOnly = i, !.dir = d] :
      a \in { x \in Argvs : x.includeOnly = <<>> },
      i \in { <<>>, docs, <<",">> }, d \in { <<>>, out, absOut } }

\* one invocation, and those that differ from it in the host, in the token or
\* in the include list
EnvArgvs ==
  LET argv == CHOOSE a \in Argvs : a.includeOnly = docs
  IN { argv,
       [argv EXCEPT !.hostUrl = "https://gitlab.other"],
       [argv EXCEPT !.token = "pat2"],
       [argv EXCEPT !.includeOnly = <<>>] }

\* the invocations that are compared with the one before them
TwiceArgvs == { a \in Argvs : a.includeOnly \in { <<>>, docs } }

\* process.cwd()
Cwd == <<"/", "w">>

\* the working directories an invocation of Spec is started in
Cwds == { Cwd }

\* the working directories of SpecEnv
EnvCwds == { Cwd, <<"/", "v">> }

\* GITLAB_HOST .. INCLUDE_ONLY (55-61)
Constants(argv) ==
  [GITLAB_HOST |-> argv.hostUrl, TOKEN |-> argv.token, PROJECT_ID |-> argv.projectId,
   BRANCH |-> argv.branch, DOWNLOAD_DIR |-> argv.dir,
   INCLUDE_ONLY |-> ParseIncludeOnly(argv.includeOnly)]

NoConfig == Constants(CHOOSE a \in Argvs : a.includeOnly = <<>>)

RECURSIVE JsonEscape(_)
\* the characters of a string as JSON.stringify writes them between the quotes
JsonEscape(str) ==
  IF str = <<>> THEN <<>>
  ELSE (IF Head(str) \in { "\"", "\\" } THEN <<"\\", Head(str)>> ELSE <<Head(str)>>)
       \o JsonEscape(Tail(str))

JsonString(str) == <<"\"">> \o JsonEscape(str) \o <<"\"">>

RECURSIVE JsonItems(_)
JsonItems(list) ==
  IF list = <<>> THEN <<>>
  ELSE IF Len(list) = 1 THEN JsonString(list[1])
  ELSE JsonString(list[1]) \o <<",">> \o JsonItems(Tail(list))

\* an array of strings
JsonArray(list) == <<"[">> \o JsonItems(list) \o <<"]">>

JsonMember(key, json) == JsonString(key) \o <<":">> \o json

\* the shorthand property names of the object literal of 69-74
KeyProjectId == <<"P", "R", "O", "J", "E", "C", "T", "_", "I", "D">>
KeyBranch == <<"B", "R", "A", "N", "C", "H">>
KeyIncludeOnly == <<"I", "N", "C", "L", "U", "D", "E", "_", "O", "N", "L", "Y">>
KeyDownloadDir == <<"D", "O", "W", "N", "L", "O", "A", "D", "_", "D", "I", "R">>

\* JSON.stringify({ PROJECT_ID, BRANCH, INCLUDE_ONLY, DOWNLOAD_DIR }) (69-74)
ArgsString(cfg) ==
  <<"{">> \o JsonMember(KeyProjectId, JsonString(cfg.PROJECT_ID))
  \o <<",">> \o JsonMember(KeyBranch, JsonString(cfg.BRANCH))
  \o <<",">> \o JsonMember(KeyIncludeOnly, JsonArray(cfg.INCLUDE_ONLY))
  \o <<",">> \o JsonMember(KeyDownloadDir, JsonString(cfg.DOWNLOAD_DIR))
  \o <<"}">>

\* the hex digest of sha256, taken as collision-free: the tagged input
Sha256(str) == <<"sha256", str>>

\* a variant that hashes the host too
generateArgsHashWithHost(cfg) == Sha256(<<cfg.GITLAB_HOST>> \o ArgsString(cfg))

\* a variant that leaves the download directory out of what is hashed
generateArgsHashNoDir(cfg) ==
  Sha256(<<"{">> \o JsonMember(KeyProjectId, JsonString(cfg.PROJECT_ID))
         \o <<",">> \o JsonMember(KeyBranch, JsonString(cfg.BRANCH))
         \o <<",">> \o JsonMember(KeyIncludeOnly, JsonArray(cfg.INCLUDE_ONLY))
         \o <<"}">>)

\* generateArgsHash (68-77)
generateArgsHash(cfg) == Sha256(ArgsString(cfg))

----------------------------------------------------------------------------
(* COMMIT_FILE (63) and what main reads from it (173-182) *)

Undefined == "undefined"
UndefinedHash == <<"undefined">>
NoHash == <<>>

\* contents of COMMIT_FILE: no file, not JSON, the JSON value null, or a JSON
\* object with its commit and argsHash members (Undefined where it has none)
FileMissing == [kind |-> "missing", commit |-> Undefined, argsHash |-> UndefinedHash]
FileCorrupt == [kind |-> "corrupt", commit |-> Undefined, argsHash |-> UndefinedHash]
FileNull == [kind |-> "null", commit |-> Undefined, argsHash |-> UndefinedHash]
FileObject(commit, argsHash) == [kind |-> "object", commit |-> commit, argsHash |-> argsHash]
EmptyObject == FileObject(Undefined, UndefinedHash)

\* what the disk may hold before the first invocation
InitCacheFiles == { FileMissing, FileCorrupt, FileNull, EmptyObject }

\* fs.readJsonSync(COMMIT_FILE) throws (no file, or JSON.parse fails)
ReadJsonThrows(file) == file.kind \in { "missing", "corrupt" }

\* cachedData after the try/catch of 173-178
CachedData(file) == IF ReadJsonThrows(file) THEN EmptyObject ELSE file

\* const { commit, argsHash } = cachedData (181) throws a TypeError on null
DestructureThrows(cachedData) == cachedData.kind = "null"

\* a plausible slip: the fingerprint is left out of the comparison
ShouldSkipCommitOnly(latest, argsHash, cachedData) == latest = cachedData.commit

\* the condition of line 182
ShouldSkip(latest, argsHash, cachedData) ==
  latest = cachedData.commit /\ argsHash = cachedData.argsHash

----------------------------------------------------------------------------
(* The include filter of downloadFolder (139) *)

\* a plausible slip: the test is made on files instead of folders
IsIgnoredBlobOnly(type, fullPath, includeOnly) ==
  /\ Len(includeOnly) > 0
  /\ type = "blob"
  /\ ~ \E i \in 1..Len(includeOnly) : Includes(fullPath, includeOnly[i])

\* the condition of line 139: the item is skipped
IsIgnored(type, fullPath, includeOnly) ==
  /\ Len(includeOnly) > 0
  /\ type = "tree"
  /\ ~ \E i \in 1..Len(includeOnly) : Includes(fullPath, includeOnly[i])

----------------------------------------------------------------------------
(* Bookkeeping of what an invocation did *)

\* a request for the listing of a folder, for the content of a file, or the
\* start of fs.outputFile on a local path
Op(kind, path) == <<kind, path>>

\* opCount with one more occurrence of every operation of ops
Counted(count, ops) ==
  [o \in (DOMAIN count) \cup ops |->
     (IF o \in DOMAIN count THEN count[o] ELSE 0) + (IF o \in ops THEN 1 ELSE 0)]

NoOps == [o \in {} |-> 0]

\* the record kept of an invocation when the next one starts
Snapshot ==
  [config |-> config, cwd |-> cwd, priorFile |-> priorFile, latest |-> latestCommitHash,
   argsHash |-> currentArgsHash, outcome |-> outcome, rootIdx |-> rootIdx,
   warned |-> warned, files |-> localFiles]

NoPrev ==
  [config |-> NoConfig, cwd |-> Cwd, priorFile |-> FileMissing, latest |-> "",
   argsHash |-> NoHash, outcome |-> "none", rootIdx |-> 0, warned |-> {}, files |-> {}]

\* a variant in which what is written differs from one invocation to the next
LocalFileStamped(path, content) == [path |-> path, content |-> <<content, run>>]

\* a downloaded file on disk
LocalFile(path, content) == [path |-> path, content |-> content]

----------------------------------------------------------------------------
\* before the first invocation, with file at COMMIT_FILE and tree on the remote
Installed(file, tree) ==
  /\ run = 0
  /\ pc = "idle"
  /\ outcome = "none"
  /\ exitCode = -1
  /\ config = NoConfig
  /\ latestCommitHash = ""
  /\ currentArgsHash = NoHash
  /\ rootIdx = 0
  /\ listing = {}
  /\ fetching = {}
  /\ writing = {}
  /\ mkdirPending = FALSE
  /\ cacheFile = file
  /\ cacheDir = (file.kind # "missing")
  /\ localFiles = {}
  /\ remoteTree = tree
  /\ remoteCommit = "abc"
  /\ priorFile = file
  /\ skipChecked = FALSE
  /\ treeCalls = {}
  /\ fileCalls = {}
  /\ written = {}
  /\ ignored = {}
  /\ warned = {}
  /\ saves = 0
  /\ cwd = Cwd
  /\ opCount = NoOps
  /\ prev = NoPrev

Init == \E file \in InitCacheFiles, tree \in RemoteTrees : Installed(file, tree)

remoteVars == <<remoteTree, remoteCommit>>
passVars == <<listing, fetching, writing, treeCalls, fileCalls, written, ignored, warned,
              opCount>>
mainVars == <<run, pc, outcome, exitCode, config, latestCommitHash, currentArgsHash,
              rootIdx, priorFile, skipChecked, saves, cwd, prev>>
diskVars == <<mkdirPending, cacheDir, cacheFile, localFiles>>

\* the previous process has ended: main returned and no operation is pending
ProcessEnded ==
  /\ pc \in { "idle", "exited" }
  /\ ~ mkdirPending
  /\ listing = {} /\ fetching = {} /\ writing = {}

\* a new commit is pushed to the branch between two invocations
RemotePush ==
  /\ ProcessEnded
  /\ run >= 1
  /\ run < MaxRuns
  /\ remoteCommit = "abc"
  /\ remoteCommit' \in Commits \ { remoteCommit }
  /\ UNCHANGED <<remoteTree, passVars, mainVars, diskVars>>

\* the user removes COMMIT_FILE between two invocations
CacheCleared ==
  /\ ProcessEnded
  /\ run < MaxRuns
  /\ cacheFile # FileMissing
  /\ cacheFile' = FileMissing
  /\ UNCHANGED <<mkdirPending, cacheDir, localFiles, passVars, mainVars, remoteVars>>

\* the CLI is started: main runs to `await fetchLatestCommitHash()` (157-165)
Started(argv, dir0) ==
  /\ ProcessEnded
  /\ run < MaxRuns
  /\ run' = run + 1
  /\ config' = Constants(argv)
  /\ cwd' = dir0
  /\ opCount' = NoOps
  /\ pc' = "fetchCommit"
  /\ outcome' = "none"
  /\ exitCode' = -1
  /\ latestCommitHash' = ""
  /\ currentArgsHash' = NoHash
  /\ rootIdx' = 0
  /\ priorFile' = cacheFile
  /\ skipChecked' = FALSE
  /\ saves' = 0
  /\ treeCalls' = {} /\ fileCalls' = {} /\ written' = {}
  /\ ignored' = {} /\ warned' = {}
  /\ UNCHANGED <<listing, fetching, writing, diskVars, remoteVars>>

StartRun(argv, dir0) == Started(argv, dir0) /\ UNCHANGED prev

\* the same start, with the invocation before it kept for comparison
StartNextRun(argv, dir0) == Started(argv, dir0) /\ prev' = Snapshot

----------------------------------------------------------------------------
(* main (157-193) *)

\* downloadFolder(folder) is called: it runs to `await fetchTree(folderPath)`,
\* whose request is issued at once (133-134, 98-104)
CallDownloadFolder(idx) ==
  /\ rootIdx' = idx
  /\ listing' = listing \cup { FOLDERS_TO_DOWNLOAD[idx] }
  /\ treeCalls' = treeCalls \cup { FOLDERS_TO_DOWNLOAD[idx] }
  /\ opCount' = Counted(opCount, { Op("tree", FOLDERS_TO_DOWNLOAD[idx]) })

\* main returns or its promise rejects into console.error (195); nothing sets
\* process.exitCode and nothing is left unhandled, so the status is 0
Exit(how) ==
  /\ pc' = "exited"
  /\ outcome' = how
  /\ exitCode' = 0

\* a variant that reaches the missing-commit check only after the cache was
\* consulted
FatalExitLate ==
  /\ Exit("fatal")
  /\ skipChecked' = TRUE
  /\ mkdirPending' = TRUE
  /\ UNCHANGED <<currentArgsHash, rootIdx, passVars, cacheDir, cacheFile, localFiles>>

\* `if (!latestCommitHash) { console.error(...); return; }` (166-169)
FatalExit ==
  /\ Exit("fatal")
  /\ UNCHANGED <<currentArgsHash, rootIdx, skipChecked, passVars, diskVars>>

\* a variant that returns only after the first folder was started
EarlySkipExitLate ==
  /\ Exit("skipped")
  /\ CallDownloadFolder(1)
  /\ UNCHANGED <<fetching, writing, fileCalls, written, ignored, warned>>

\* `console.log('No changes detected ...'); return;` (182-185)
EarlySkipExit ==
  /\ Exit("skipped")
  /\ UNCHANGED <<rootIdx, passVars>>

\* lines 171-189 up to the first await of the loop, run in one turn of the
\* event loop once the commit hash is there
MainAfterCommit(hash) ==
  LET cachedData == CachedData(cacheFile)
      argsHash == generateArgsHash(config)
  IN /\ mkdirPending' = TRUE                       \* fs.mkdirp(CACHE_DIR), not awaited
     /\ currentArgsHash' = argsHash
     /\ UNCHANGED <<cacheDir, cacheFile, localFiles>>
     /\ IF DestructureThrows(cachedData)
        THEN /\ Exit("crashed")
             /\ UNCHANGED <<rootIdx, skipChecked, passVars>>
        ELSE /\ skipChecked' = TRUE
             /\ IF ShouldSkip(hash, argsHash, cachedData)
                THEN EarlySkipExit
                ELSE /\ pc' = "pass"
                     /\ CallDownloadFolder(1)
                     /\ UNCHANGED <<outcome, exitCode, fetching, writing, fileCalls,
                                    written, ignored, warned>>

\* the commit request succeeds with the id of the branch head (88)
CommitResolved ==
  /\ pc = "fetchCommit"
  /\ latestCommitHash' = remoteCommit
  /\ MainAfterCommit(remoteCommit)
  /\ UNCHANGED <<run, config, priorFile, saves, cwd, prev, remoteVars>>

\* the commit request fails: fetchLatestCommitHash returns null (89-92)
CommitFailed ==
  /\ pc = "fetchCommit"
  /\ latestCommitHash' = ""
  /\ FatalExit
  /\ UNCHANGED <<run, config, priorFile, saves, cwd, prev, remoteVars>>

\* the mkdir started at 171 completes on the thread pool
MkdirDone ==
  /\ mkdirPending
  /\ mkdirPending' = FALSE
  /\ cacheDir' = TRUE
  /\ UNCHANGED <<cacheFile, localFiles, passVars, mainVars, remoteVars>>

----------------------------------------------------------------------------
(* downloadFolder, fetchTree and downloadFile (98-152) *)

\* the children of folderPath that items.map starts a task for
ChildPaths(folderPath, type) ==
  { FullPath(folderPath, e.name) :
      e \in { x \in Items(remoteTree, folderPath) : x.type = type } }

\* a variant that applies no filter
IgnoredChildrenNone(folderPath) == {}

\* the folder children that fail the test of 139
IgnoredChildren(folderPath) ==
  { p \in ChildPaths(folderPath, "tree") : IsIgnored("tree", p, config.INCLUDE_ONLY) }

\* the tree request of folderPath succeeds (with no items for a folder the
\* repository does not have): items.map starts every child's task, each running
\* to its first await (134-149)
TreeReturned(folderPath) ==
  /\ folderPath \in listing
  /\ LET skip == IgnoredChildren(folderPath)
         dirs == ChildPaths(folderPath, "tree") \ skip
         blobs == ChildPaths(folderPath, "blob")
     IN /\ ignored' = ignored \cup skip
        /\ listing' = (listing \ { folderPath }) \cup dirs
        /\ treeCalls' = treeCalls \cup dirs
        /\ fetching' = fetching \cup blobs
        /\ fileCalls' = fileCalls \cup blobs
        /\ opCount' = Counted(opCount, { Op("tree", d) : d \in dirs } \cup
                                        { Op("file", b) : b \in blobs })
  /\ UNCHANGED <<writing, written, warned, mainVars, diskVars, remoteVars>>

\* a variant whose error escapes the task and rejects main
ListingErrorEscapes(folderPath) ==
  /\ listing' = {}
  /\ warned' = warned \cup { folderPath }
  /\ Exit("crashed")
  /\ UNCHANGED <<run, config, latestCommitHash, currentArgsHash, rootIdx, priorFile,
                 skipChecked, saves, cwd, prev>>

\* the catch of fetchTree: log and return [] (106-109), so the map of 135 has
\* nothing to start
ListingErrorCaught(folderPath) ==
  /\ listing' = listing \ { folderPath }
  /\ warned' = warned \cup { folderPath }
  /\ UNCHANGED mainVars

\* the tree request of folderPath fails
TreeFailed(folderPath) ==
  /\ folderPath \in listing
  /\ ListingErrorCaught(folderPath)
  /\ UNCHANGED <<fetching, writing, treeCalls, fileCalls, written, ignored, opCount,
                 diskVars, remoteVars>>

\* the raw-file request succeeds: fs.outputFile is started (118-123)
FileFetched(filePath) ==
  /\ filePath \in fetching
  /\ fetching' = fetching \ { filePath }
  /\ writing' = writing \cup { filePath }
  /\ opCount' = Counted(opCount,
                        { Op("write", PathJoin(cwd, config.DOWNLOAD_DIR, filePath)) })
  /\ UNCHANGED <<listing, treeCalls, fileCalls, written, ignored, warned,
                 mainVars, diskVars, remoteVars>>

\* the raw-file request fails: caught and logged (125-127)
FileFetchFailed(filePath) ==
  /\ filePath \in fetching
  /\ fetching' = fetching \ { filePath }
  /\ warned' = warned \cup { filePath }
  /\ UNCHANGED <<listing, writing, treeCalls, fileCalls, written, ignored, opCount,
                 mainVars, diskVars, remoteVars>>

\* fs.outputFile completes (123-124): the local path holds response.data, the
\* file as it is at the head of the branch (116), whatever it held before
FileWritten(filePath) ==
  /\ filePath \in writing
  /\ writing' = writing \ { filePath }
  /\ written' = written \cup { filePath }
  /\ LET localPath == PathJoin(cwd, config.DOWNLOAD_DIR, filePath)
     IN localFiles' = { f \in localFiles : f.path # localPath } \cup
                        { LocalFile(localPath, remoteCommit) }
  /\ UNCHANGED <<listing, fetching, treeCalls, fileCalls, ignored, warned, opCount,
                 mainVars, mkdirPending, cacheDir, cacheFile, remoteVars>>

\* fs.outputFile fails: caught and logged (125-127)
FileWriteFailed(filePath) ==
  /\ filePath \in writing
  /\ writing' = writing \ { filePath }
  /\ warned' = warned \cup { filePath }
  /\ UNCHANGED <<listing, fetching, treeCalls, fileCalls, written, ignored, opCount,
                 mainVars, diskVars, remoteVars>>

\* a variant that does not await downloadFolder at all
TasksSettledAtOnce == TRUE

\* a variant that does not wait for the local writes
TasksSettledButWrites == listing = {} /\ fetching = {}

\* Promise.all(downloadTasks) of the awaited root folder resolves (151): every
\* task below it, at every depth, has settled
TasksSettled == listing = {} /\ fetching = {} /\ writing = {}

\* `await downloadFolder(folder)` returns: the loop goes on to the next root
\* folder (187-189)
NextFolder ==
  /\ pc = "pass"
  /\ TasksSettled
  /\ rootIdx < Len(FOLDERS_TO_DOWNLOAD)
  /\ CallDownloadFolder(rootIdx + 1)
  /\ UNCHANGED <<run, pc, outcome, exitCode, config, latestCommitHash, currentArgsHash,
                 priorFile, skipChecked, saves, cwd, prev, fetching, writing, fileCalls,
                 written, ignored, warned, diskVars, remoteVars>>

\* the loop is over: fs.writeJsonSync(COMMIT_FILE, ...) and 'Download complete.'
\* (191-192); without CACHE_DIR the write throws ENOENT and main rejects
SaveAndComplete ==
  /\ pc = "pass"
  /\ TasksSettled
  /\ rootIdx = Len(FOLDERS_TO_DOWNLOAD)
  /\ IF cacheDir
     THEN /\ cacheFile' = FileObject(latestCommitHash, currentArgsHash)
          /\ saves' = saves + 1
          /\ Exit("complete")
     ELSE /\ Exit("crashed")
          /\ UNCHANGED <<cacheFile, saves>>
  /\ UNCHANGED <<run, config, latestCommitHash, currentArgsHash, rootIdx, priorFile,
                 skipChecked, cwd, prev, passVars, mkdirPending, cacheDir, localFiles,
                 remoteVars>>

----------------------------------------------------------------------------
Next ==
  \/ \E argv \in Argvs, dir0 \in Cwds : StartRun(argv, dir0)
  \/ RemotePush
  \/ CommitResolved
  \/ CommitFailed
  \/ MkdirDone
  \/ \E p \in listing : TreeReturned(p)
  \/ \E p \in listing : TreeFailed(p)
  \/ \E p \in fetching : FileFetched(p)
  \/ \E p \in fetching : FileFetchFailed(p)
  \/ \E p \in writing : FileWritten(p)
  \/ \E p \in writing : FileWriteFailed(p)
  \/ NextFolder
  \/ SaveAndComplete

Spec == Init /\ [][Next]_vars

----------------------------------------------------------------------------
(* Consecutive invocations on one checkout, each compared with the one      *)
(* before it: no cache yet, and the user may remove COMMIT_FILE in between. *)

InitTwice == Installed(FileMissing, TreeRoots)

NextTwice ==
  \/ \E argv \in TwiceArgvs, dir0 \in Cwds : StartNextRun(argv, dir0)
  \/ RemotePush
  \/ CacheCleared
  \/ CommitResolved
  \/ CommitFailed
  \/ MkdirDone
  \/ \E p \in listing : TreeReturned(p)
  \/ \E p \in listing : TreeFailed(p)
  \/ \E p \in fetching : FileFetched(p)
  \/ \E p \in fetching : FileFetchFailed(p)
  \/ \E p \in writing : FileWritten(p)
  \/ \E p \in writing : FileWriteFailed(p)
  \/ NextFolder
  \/ SaveAndComplete

SpecTwice == InitTwice /\ [][NextTwice]_vars

----------------------------------------------------------------------------
(* Consecutive invocations that differ in the hashed options, on a          *)
(* repository that has none of the root folders.                            *)

InitHash == Installed(FileMissing, TreeEmpty)

NextHash ==
  \/ \E argv \in HashArgvs, dir0 \in Cwds : StartNextRun(argv, dir0)
  \/ CommitResolved
  \/ CommitFailed
  \/ MkdirDone
  \/ \E p \in listing : TreeReturned(p)
  \/ \E p \in listing : TreeFailed(p)
  \/ NextFolder
  \/ SaveAndComplete

SpecHash == InitHash /\ [][NextHash]_vars

----------------------------------------------------------------------------
(* Invocations with a download directory. *)

InitDir == \E tree \in { TreeRoots, TreeUnderProto } : Installed(FileMissing, tree)

NextDir ==
  \/ \E argv \in DirArgvs, dir0 \in Cwds : StartRun(argv, dir0)
  \/ CommitResolved
  \/ CommitFailed
  \/ MkdirDone
  \/ \E p \in listing : TreeReturned(p)
  \/ \E p \in listing : TreeFailed(p)
  \/ \E p \in fetching : FileFetched(p)
  \/ \E p \in fetching : FileFetchFailed(p)
  \/ \E p \in writing : FileWritten(p)
  \/ \E p \in writing : FileWriteFailed(p)
  \/ NextFolder
  \/ SaveAndComplete

SpecDir == InitDir /\ [][NextDir]_vars

----------------------------------------------------------------------------
(* Consecutive invocations that differ in host, token or working directory, *)
(* starting with no COMMIT_FILE or with the one a completed run left.       *)

EnvCacheFiles ==
  { FileMissing } \cup
  { FileObject("abc", generateArgsHash(Constants(argv))) :
      argv \in { a \in EnvArgvs : a.includeOnly = docs } }

InitEnv == \E file \in EnvCacheFiles : Installed(file, TreeProto)

NextEnv ==
  \/ \E argv \in EnvArgvs, dir0 \in EnvCwds : StartNextRun(argv, dir0)
  \/ RemotePush
  \/ CommitResolved
  \/ CommitFailed
  \/ MkdirDone
  \/ \E p \in listing : TreeReturned(p)
  \/ \E p \in listing : TreeFailed(p)
  \/ \E p \in fetching : FileFetched(p)
  \/ \E p \in fetching : FileFetchFailed(p)
  \/ \E p \in writing : FileWritten(p)
  \/ \E p \in writing : FileWriteFailed(p)
  \/ NextFolder
  \/ SaveAndComplete

SpecEnv == InitEnv /\ [][NextEnv]_vars

----------------------------------------------------------------------------
(* Properties *)

Roots == { FOLDERS_TO_DOWNLOAD[i] : i \in 1..Len(FOLDERS_TO_DOWNLOAD) }
InFlight == listing \cup fetching \cup writing

\* the persisted state the invocation started from is a record holding a
\* commit and a fingerprint
PriorStatePresent ==
  /\ priorFile.kind = "object"
  /\ priorFile.commit # Undefined
  /\ priorFile.argsHash # UndefinedHash

\* C1: once the latest commit id is resolved, the run has taken the early-skip
\* exit if and only if prior state is present, its commit equals the fetched
\* commit id and its fingerprint equals the fingerprint of this run's
\* configuration.
C1_SkipIffMatch ==
  latestCommitHash # "" =>
    ( outcome = "skipped" <=>
        /\ PriorStatePresent
        /\ priorFile.commit = latestCommitHash
        /\ priorFile.argsHash = generateArgsHash(config) )

C1_Witness ==
  /\ outcome = "skipped"
  /\ PriorStatePresent
  /\ run = 2

\* C1 (other direction): a run whose prior state holds the same commit but
\* another fingerprint goes into the pass.
C1_WitnessMismatch ==
  /\ pc = "pass"
  /\ PriorStatePresent
  /\ priorFile.commit = latestCommitHash
  /\ priorFile.argsHash # generateArgsHash(config)

\* C2: a run that skips has issued no tree listing and no file fetch, has
\* nothing in flight, has ended, and no step of it (the skip itself or
\* anything after it) changes the files on disk.
C2_SkipDoesNothing ==
  [][ outcome' = "skipped" =>
        /\ pc' = "exited"
        /\ treeCalls' = {} /\ fileCalls' = {} /\ written' = {}
        /\ InFlight' = {}
        /\ localFiles' = localFiles ]_vars

C2_Witness ==
  /\ outcome = "skipped"
  /\ pc = "exited"
  /\ treeCalls = {}
  /\ localFiles # {}

\* C3: COMMIT_FILE is written at most once per run, only by the step that
\* ends a pass in which downloadFolder was called for every root folder and
\* nothing (listing, fetch, local write) is in flight; a run that skips leaves
\* COMMIT_FILE as it found it.
C3_SaveOnlyAfterFullPass ==
  [][ /\ (cacheFile' # cacheFile \/ saves' > saves) =>
          /\ saves = 0 /\ saves' = 1
          /\ pc = "pass" /\ outcome' = "complete"
          /\ rootIdx = Len(FOLDERS_TO_DOWNLOAD)
          /\ Roots \subseteq treeCalls
          /\ InFlight = {}
          /\ skipChecked
      /\ outcome' = "skipped" => (cacheFile' = priorFile' /\ saves' = 0) ]_vars

C3_Witness ==
  /\ outcome = "complete"
  /\ saves = 1
  /\ written # {}
  /\ warned # {}
  /\ cacheFile # priorFile

\* C4: every run that resolved the commit id and did not skip ends with
\* downloadFolder called for every root folder and with COMMIT_FILE holding
\* exactly the resolved commit id and this run's fingerprint.
C4_FullPassAndSave ==
  (pc = "exited" /\ latestCommitHash # "" /\ outcome # "skipped") =>
    /\ Roots \subseteq treeCalls
    /\ cacheFile = FileObject(latestCommitHash, generateArgsHash(config))

\* C5: a run that could not resolve the latest commit id ends with a
\* non-zero exit status.
C5_FatalNonZeroExit ==
  outcome = "fatal" => (pc = "exited" /\ exitCode # 0)

\* C6: a run that could not resolve the latest commit id has made no skip
\* check, issued no tree listing and no file fetch, written no file and left
\* COMMIT_FILE as it found it.
C6_FatalDoesNothing ==
  outcome = "fatal" =>
    /\ pc = "exited"
    /\ ~ skipChecked
    /\ treeCalls = {} /\ fileCalls = {} /\ written = {}
    /\ InFlight = {}
    /\ cacheFile = priorFile /\ saves = 0

C6_Witness ==
  /\ outcome = "fatal"
  /\ PriorStatePresent
  /\ localFiles # {}
  /\ cacheFile = priorFile

\* C7: whatever COMMIT_FILE holds that is not a record with the two fields
\* (no file, not JSON, JSON null, an object without the fields), a run that
\* resolved the commit id goes on as a first run: it makes the skip check,
\* does not skip, starts the pass with the first root folder, and a run that
\* ended normally has saved the new state.
C7_LoadNeverFatal ==
  (latestCommitHash # "" /\ ~ PriorStatePresent) =>
    /\ skipChecked
    /\ outcome # "skipped"
    /\ FOLDERS_TO_DOWNLOAD[1] \in treeCalls
    /\ outcome # "crashed"
    /\ outcome = "complete" =>
          cacheFile = FileObject(latestCommitHash, generateArgsHash(config))

\* shouldDescend(fullPath, filter) as the specification words it: true for an
\* empty filter, else true iff some term is a contiguous part of the path
ShouldDescend(fullPath, filter) ==
  \/ Len(filter) = 0
  \/ \E i \in 1..Len(filter) :
       \E a \in 1..(Len(fullPath) + 1) :
         /\ a + Len(filter[i]) - 1 <= Len(fullPath)
         /\ SubSeq(fullPath, a, a + Len(filter[i]) - 1) = filter[i]

\* the folders this run has received the listing of
Listed == treeCalls \ (listing \cup warned)

\* the folder children of the folders listed so far
SeenFolders == UNION { ChildPaths(p, "tree") : p \in Listed }

\* C8: for every folder entry a listing of this run returned, the run logged
\* it as ignored iff shouldDescend is false for its full path and requested
\* its listing iff shouldDescend is true; nothing else is ever ignored.
C8_FilterIsShouldDescend ==
  /\ \A p \in SeenFolders :
       /\ p \in ignored <=> ~ ShouldDescend(p, config.INCLUDE_ONLY)
       /\ p \in treeCalls <=> ShouldDescend(p, config.INCLUDE_ONLY)
  /\ ignored \subseteq SeenFolders
  /\ Len(config.INCLUDE_ONLY) = 0 => ignored = {}

C8_Witness ==
  /\ Len(config.INCLUDE_ONLY) = 2
  /\ FullPath(proto, dirA) \in ignored
  /\ FullPath(proto, dirB) \in treeCalls
  /\ outcome = "complete"

\* the three files of the scenario, below the folder prefix
ScenarioDocsX(prefix) == FullPath(FullPath(FullPath(prefix, dirA), docs), xTxt)
ScenarioOtherDocsY(prefix) ==
  FullPath(FullPath(FullPath(FullPath(prefix, dirA), other), docs), yTxt)
ScenarioBY(prefix) == FullPath(FullPath(prefix, dirB), yTxt)

\* the scenario: filter ["docs"], the three files (at the repository root or
\* below the root folder proto), a finished pass without any failure
ScenarioDone(tree) ==
  /\ remoteTree = tree
  /\ config.INCLUDE_ONLY = <<docs>>
  /\ outcome = "complete"
  /\ warned = {}

\* C9 as stated: in the scenario a/docs/x.txt and a/other/docs/y.txt are
\* downloaded and b/y.txt is not.
C9_ScenarioAsStated ==
  /\ ScenarioDone(TreeAtRoot) =>
       /\ { ScenarioDocsX(<<>>), ScenarioOtherDocsY(<<>>) } \subseteq written
       /\ ScenarioBY(<<>>) \notin written
  /\ ScenarioDone(TreeUnderProto) =>
       /\ { ScenarioDocsX(proto), ScenarioOtherDocsY(proto) } \subseteq written
       /\ ScenarioBY(proto) \notin written

\* C9 amended: with filter ["docs"] and the three files, no run ever requests
\* or writes any of them and no folder below a root folder is listed: the
\* first-level folders a and b do not contain "docs" in their own full path,
\* and a finished pass under proto has logged exactly these two as ignored.
C9_ScenarioDownloadsNothing ==
  (remoteTree \in { TreeAtRoot, TreeUnderProto } /\ config.INCLUDE_ONLY = <<docs>>) =>
    /\ fileCalls = {} /\ written = {}
    /\ treeCalls \subseteq Roots
    /\ ScenarioDone(TreeUnderProto) =>
         ignored = { FullPath(proto, dirA), FullPath(proto, dirB) }

C9_Witness ==
  /\ ScenarioDone(TreeUnderProto)
  /\ ignored = { FullPath(proto, dirA), FullPath(proto, dirB) }
  /\ written = {}

\* C10 (a failed sub-folder listing): the listing of proto/a/docs failed and
\* the fetch of proto/b/y.txt failed, and the sibling folder proto/a/other was
\* still traversed down to its file.
C10_WitnessSubtree ==
  /\ remoteTree = TreeUnderProto
  /\ outcome = "complete"
  /\ FullPath(FullPath(proto, dirA), docs) \in warned
  /\ ScenarioBY(proto) \in warned
  /\ ScenarioOtherDocsY(proto) \in written
  /\ ScenarioDocsX(proto) \notin fileCalls

\* C10: in every folder whose listing arrived, every file child has been
\* requested and every folder child passing the filter has been listed,
\* whatever happened to its siblings; once the run has ended every requested
\* file that did not fail itself is written and every failed one is not; and
\* no failure of a listing or a file ends the run before downloadFolder has
\* returned for every root folder.
C10_FailSoftIsolation ==
  /\ \A p \in Listed :
       /\ ChildPaths(p, "blob") \subseteq fileCalls
       /\ { d \in ChildPaths(p, "tree") : ShouldDescend(d, config.INCLUDE_ONLY) }
            \subseteq treeCalls
  /\ (pc = "exited" /\ treeCalls # {}) =>
       /\ \A f \in fileCalls : f \in written <=> f \notin warned
       /\ Roots \subseteq treeCalls
       /\ rootIdx = Len(FOLDERS_TO_DOWNLOAD)
       /\ InFlight = {}

C10_Witness ==
  /\ remoteTree = TreeSiblings
  /\ outcome = "complete"
  /\ FullPath(FullPath(proto, docs), xTxt) \in warned
  /\ FullPath(FullPath(proto, docs), yTxt) \in written
  /\ build \in warned
  /\ FullPath(proto, aProto) \in written

----------------------------------------------------------------------------
(* Properties of consecutive invocations (SpecTwice) *)

\* the loop over FOLDERS_TO_DOWNLOAD ran to its end
FullPassDone(idx) == idx = Len(FOLDERS_TO_DOWNLOAD)

\* this invocation has ended, had the configuration and working directory of
\* the one before it, and both resolved the same commit of the same tree
SameRunAgain ==
  /\ pc = "exited"
  /\ run >= 2
  /\ latestCommitHash # ""
  /\ prev.latest = latestCommitHash
  /\ prev.config = config
  /\ prev.cwd = cwd

\* C11 as stated: after the second of two invocations with the same
\* configuration on the same remote commit, the local files are what they were
\* after the first, whether the second skipped or ran the full pass.
C11_IdempotentAsStated == SameRunAgain => localFiles = prev.files

\* C11: after the second of two invocations with the same configuration on the
\* same remote commit, the local files are what they were after the first,
\* when the second skipped, or when both ran the full pass and the same
\* listings, fetches and writes failed in both.
C11_Idempotent ==
  ( /\ SameRunAgain
    /\ \/ outcome = "skipped"
       \/ /\ FullPassDone(rootIdx) /\ FullPassDone(prev.rootIdx)
          /\ warned = prev.warned )
  => localFiles = prev.files

\* a forced second full pass that wrote files again
C11_Witness ==
  /\ SameRunAgain
  /\ FullPassDone(rootIdx) /\ FullPassDone(prev.rootIdx)
  /\ warned = prev.warned
  /\ written # {}
  /\ outcome = "complete"

\* a second invocation that skipped
C11_WitnessSkip ==
  /\ SameRunAgain
  /\ outcome = "skipped"
  /\ prev.files # {}

----------------------------------------------------------------------------
(* Properties of one invocation (Spec), continued *)

\* C12: an invocation that resolved the commit id and did not take the
\* early-skip exit ends having printed 'Download complete.', whatever listings
\* and fetches failed on the way.
C12_NonSkippingRunCompletes ==
  (pc = "exited" /\ latestCommitHash # "" /\ outcome # "skipped") => outcome = "complete"

\* C18: whenever the loop over the root folders is over and writeJsonSync is
\* about to run, the mkdirp of CACHE_DIR started before the loop has completed.
C18_MkdirDoneBeforeSave ==
  (pc = "pass" /\ TasksSettled /\ FullPassDone(rootIdx)) => cacheDir

----------------------------------------------------------------------------
(* Properties of generateArgsHash (SpecHash) *)

\* the constants that generateArgsHash reads
HashedConstants == { "PROJECT_ID", "BRANCH", "INCLUDE_ONLY", "DOWNLOAD_DIR" }

\* the constants among them in which this invocation differs from the one before
Changed == { k \in HashedConstants : prev.config[k] # config[k] }

\* this invocation and the one before it both computed the hash
HashedTwice == run >= 2 /\ currentArgsHash # NoHash /\ prev.argsHash # NoHash

----------------------------------------------------------------------------
(* Properties of what a full pass writes, and where (SpecDir) *)

\* path a is the folder b or lies beneath it
IsUnder(a, b) ==
  \/ a = b
  \/ Len(a) > Len(b) /\ SubSeq(a, 1, Len(b) + 1) = b \o <<"/">>

\* the repository paths of the folders of a tree
DirsOf(tree) == { FullPath(e.path, e.name) : e \in { x \in tree : x.type = "tree" } }

\* the files below a root folder all of whose folders strictly below that root
\* pass the filter
Wanted(tree, filter) ==
  { FullPath(e.path, e.name) :
      e \in { x \in tree :
                /\ x.type = "blob"
                /\ \E r \in Roots :
                     /\ IsUnder(x.path, r)
                     /\ \A d \in DirsOf(tree) :
                          (IsUnder(x.path, d) /\ IsUnder(d, r) /\ d # r)
                            => ShouldDescend(d, filter) } }

\* the directory that --dir names: the working directory when empty, itself
\* when absolute, relative to the working directory otherwise
DestinationRoot(dir0, dir) ==
  IF dir = <<>> THEN dir0
  ELSE IF Head(dir) = "/" THEN dir
  ELSE dir0 \o <<"/">> \o dir

\* the local paths this invocation started a write on
WritePaths == { o[2] : o \in { x \in DOMAIN opCount : x[1] = "write" } }

\* a full pass in which nothing failed has ended
CleanFullPass ==
  /\ pc = "exited"
  /\ FullPassDone(rootIdx)
  /\ outcome \in { "complete", "crashed" }
  /\ warned = {}

\* after a full pass in which nothing failed, the files written are the
\* wanted ones
WrittenIsWanted == CleanFullPass => written = Wanted(remoteTree, config.INCLUDE_ONLY)

\* C14: after a full pass in which nothing failed, the files written are
\* exactly the files below proto and build whose folders strictly below the
\* root all pass the filter, and each is written at its repository path
\* below the download directory.
C14_WantedFilesAtDestination ==
  CleanFullPass =>
    /\ written = Wanted(remoteTree, config.INCLUDE_ONLY)
    /\ WritePaths =
         { DestinationRoot(cwd, config.DOWNLOAD_DIR) \o <<"/">> \o filePath :
             filePath \in written }

----------------------------------------------------------------------------
(* Properties of the traversal (Spec) *)

\* the folders strictly below a root folder that do not pass the filter
FailingDirs ==
  { d \in DirsOf(remoteTree) :
      /\ \E r \in Roots : IsUnder(d, r) /\ d # r
      /\ ~ShouldDescend(d, config.INCLUDE_ONLY) }

\* C15: every listing requested for a folder other than a root folder was
\* requested after the listing of its parent had returned it as a folder and
\* its own full path passes the filter; and no listing and no file was ever
\* requested for a folder that fails the filter or for anything beneath it.
C15_DescendOnlyThroughFilter ==
  /\ \A p \in treeCalls \ Roots :
       /\ \E q \in Listed : p \in ChildPaths(q, "tree")
       /\ ShouldDescend(p, config.INCLUDE_ONLY)
  /\ \A d \in FailingDirs : \A p \in treeCalls \cup fileCalls : ~IsUnder(p, d)

\* a pass that ignored one folder and went into another
C15_Witness ==
  /\ pc = "exited"
  /\ ignored # {}
  /\ treeCalls \ Roots # {}
  /\ \E p \in written : \E q \in treeCalls \ Roots : IsUnder(p, q)

\* how many times this invocation issued an operation
Count(o) == IF o \in DOMAIN opCount THEN opCount[o] ELSE 0

\* C16: the root folders are taken one after the other in the order of
\* FOLDERS_TO_DOWNLOAD: nothing is requested below a root folder before its
\* turn, nothing below an earlier root folder is still in flight once a later
\* one has been started, and downloadFolder was called exactly once for every
\* root folder reached so far and for no other.
C16_RootsInSequence ==
  \A i \in 1..Len(FOLDERS_TO_DOWNLOAD) :
    LET root == FOLDERS_TO_DOWNLOAD[i]
    IN /\ i > rootIdx => \A p \in treeCalls \cup fileCalls : ~IsUnder(p, root)
       /\ i < rootIdx => \A p \in InFlight : ~IsUnder(p, root)
       /\ Count(Op("tree", root)) = (IF i <= rootIdx THEN 1 ELSE 0)

\* build is being listed after a file of proto was written
C16_Witness ==
  /\ pc = "pass"
  /\ rootIdx = 2
  /\ build \in listing
  /\ \E p \in written : IsUnder(p, proto)

\* C17: within one invocation no folder's listing and no file is requested
\* more than once and no local path has more than one write started on it, so
\* the writes in flight or done all have different destinations.
C17_EachPathOnce ==
  /\ \A o \in DOMAIN opCount : opCount[o] <= 1
  /\ \A p, q \in writing \cup written :
       p # q => PathJoin(cwd, config.DOWNLOAD_DIR, p) # PathJoin(cwd, config.DOWNLOAD_DIR, q)

\* two sibling files are being written at the same time
C17_Witness ==
  /\ Cardinality(writing) >= 2
  /\ \A p \in writing : Count(Op("write", PathJoin(cwd, config.DOWNLOAD_DIR, p))) = 1

----------------------------------------------------------------------------
(* Properties of the skip decision across invocations (SpecEnv) *)

\* this invocation and the one before it both resolved the commit, the same
\* one, found the same COMMIT_FILE, and were given the same project id,
\* branch, include list and download directory
SameSkipInputs ==
  /\ run >= 2
  /\ latestCommitHash # ""
  /\ prev.latest = latestCommitHash
  /\ prev.priorFile = priorFile
  /\ Changed = {}

\* C19: two invocations that found the same COMMIT_FILE, resolved the same
\* commit and agree on project id, branch, include list and download
\* directory either both take the early-skip exit or both do not, whatever
\* their host, token and working directory.
C19_SkipIgnoresHostTokenCwd ==
  SameSkipInputs => ((outcome = "skipped") <=> (prev.outcome = "skipped"))

\* both skipped although host, token and working directory all differ
C19_Witness ==
  /\ SameSkipInputs
  /\ outcome = "skipped"
  /\ prev.outcome = "skipped"
  /\ prev.config.GITLAB_HOST # config.GITLAB_HOST
  /\ prev.cwd # cwd

====
